---- MODULE Spec2Model ----
(***************************************************************************)
(* Link validator (src/src/url_validator.py) and retry wrapper             *)
(* (src/src/utils/retry.py) of the news digest pipeline.                   *)
(*                                                                         *)
(* Strings are sequences of text fragments: a URL is a sequence such as    *)
(* <<"https://", "good.example">>, so that the substring test of the       *)
(* blocklist and the prefix test of the scheme are computed on the value.  *)
(* An Optional[...] field is <<>> for None and <<x>> for a value x.        *)
(***************************************************************************)
EXTENDS Integers, Sequences, FiniteSets, TLC

\* ------------------------------------------------------------------ bounds
MaxUrls == 2
MaxConcurrent == 2
MaxRetries == 4
MaxBaseDelay == 2
MaxDelayCap == 5
MaxItems == 3
MaxCategories == 3

\* ------------------------------------------------------- python primitives
None == <<>>

Some(x) == <<x>>

Min(a, b) == IF a <= b THEN a ELSE b

\* s[:n]
Truncate(s, n) == SubSeq(s, 1, Min(Len(s), n))

DigitChar(d) ==
  CASE d = 0 -> "0" [] d = 1 -> "1" [] d = 2 -> "2" [] d = 3 -> "3"
    [] d = 4 -> "4" [] d = 5 -> "5" [] d = 6 -> "6" [] d = 7 -> "7"
    [] d = 8 -> "8" [] d = 9 -> "9"

RECURSIVE IntToStr(_)
\* str(n) of a non-negative int, as used by the f-strings
IntToStr(n) ==
  IF n < 10 THEN <<DigitChar(n)>>
  ELSE IntToStr(n \div 10) \o <<DigitChar(n % 10)>>

\* needle in url, for a one-fragment needle
Contains(url, needle) == \E i \in 1..Len(url) : url[i] = needle

\* url.startswith(prefixes)
StartsWithAny(url, prefixes) == Len(url) > 0 /\ url[1] \in prefixes

\* A python value with its type: the response's url is a yarl URL object,
\* the requested url a str; == and != between the two types never hold equal.
PyStr(s) == [type |-> "str", v |-> s]

PyUrl(s) == [type |-> "URL", v |-> s]

PyNe(a, b) == a # b

\* str(x)
Str(x) == x.v

\* --------------------------------------------------------------- the inputs
BlockedHost == "vertexaisearch.cloud.google.com"

GoodUrl == <<"https://", "good.example">>

DeadUrl == <<"http://", "dead.example">>

GroundingUrl == <<"https://", BlockedHost, "/grounding-api-redirect">>

BareGroundingUrl == <<BlockedHost, "/grounding-api-redirect">>

FtpUrl == <<"ftp://", "files.example">>

RedirectTarget == <<"https://", "moved.example">>

UrlPool == {GoodUrl, DeadUrl, GroundingUrl, BareGroundingUrl, FtpUrl}

UrlLists == UNION {[1..n -> UrlPool] : n \in 0..MaxUrls}

StatusCodes == {200, 399, 400, 404}

\* What the transport does with one HEAD request: a response (status and the
\* url it resolved to), or one of the three exception classes of validate_url.
Responses(url) ==
  {[kind |-> "response", status |-> s, url |-> PyUrl(u), name |-> <<>>, msg |-> <<>>] :
     s \in StatusCodes, u \in {url, RedirectTarget}}

Failures ==
  { [kind |-> "timeout", status |-> 0, url |-> PyUrl(<<>>), name |-> <<>>, msg |-> <<>>],
    [kind |-> "client_error", status |-> 0, url |-> PyUrl(<<>>),
     name |-> <<"ClientConnectorError">>, msg |-> <<>>],
    [kind |-> "exception", status |-> 0, url |-> PyUrl(<<>>),
     name |-> <<"ValueError">>, msg |-> <<"bad", " ", "header">>] }

Outcomes(url) == Responses(url) \cup Failures

\* ------------------------------------------------------------- validate_url
ErrMsgLimit == 50

ValidationResult(url, is_valid, status_code, final_url, error) ==
  [url |-> url, is_valid |-> is_valid, status_code |-> status_code,
   final_url |-> final_url, error |-> error]

\* fault injection: the host is looked for at the start of the url only
IsBlockedPrefix(url) == Len(url) > 0 /\ url[1] = BlockedHost

IsBlocked(url) == Contains(url, BlockedHost)

\* fault injection: any scheme is accepted
HasSchemeLoose(url) == StartsWithAny(url, {"http://", "https://", "ftp://"})

HasScheme(url) == StartsWithAny(url, {"http://", "https://"})

BlockedResult(url) ==
  ValidationResult(url, FALSE, None, None,
                   Some(<<"Google redirect-lank (ej direkt URL)">>))

MalformedResult(url) ==
  ValidationResult(url, FALSE, None, None, Some(<<"Ogiltig URL-format">>))

\* TRUE when validate_url returns before it reaches session.head
IsLocal(url) == IsBlocked(url) \/ ~HasScheme(url)

\* fault injection: the scheme is tested before the blocklist
LocalResultSchemeFirst(url) ==
  IF ~HasScheme(url) THEN MalformedResult(url) ELSE BlockedResult(url)

LocalResult(url) ==
  IF IsBlocked(url) THEN BlockedResult(url) ELSE MalformedResult(url)

\* fault injection: 400 counts as a success
StatusOkInclusive(status) == status <= 400

StatusOk(status) == status < 400

\* fault injection: the status text is stored as error for every response
ResponseResultAlwaysError(url, response) ==
  ValidationResult(
    url, StatusOk(response.status), Some(response.status),
    IF PyNe(response.url, PyStr(url)) THEN Some(Str(response.url)) ELSE None,
    Some(<<"HTTP ">> \o IntToStr(response.status)))

ResponseResult(url, response) ==
  LET is_valid == StatusOk(response.status)
  IN  ValidationResult(
        url, is_valid, Some(response.status),
        IF PyNe(response.url, PyStr(url)) THEN Some(Str(response.url)) ELSE None,
        IF is_valid THEN None ELSE Some(<<"HTTP ">> \o IntToStr(response.status)))

TimeoutResult(url) ==
  ValidationResult(url, FALSE, None, None, Some(<<"Timeout">>))

ClientErrorResult(url, e) ==
  ValidationResult(url, FALSE, None, None, Some(<<"Natverksfel: ">> \o e.name))

UnexpectedResult(url, e) ==
  ValidationResult(url, FALSE, None, None,
                   Some(<<"Ovantat fel: ">> \o Truncate(e.msg, ErrMsgLimit)))

\* fault injection: the generic handler comes first and takes the timeout too
ProbeResultGenericFirst(url, o) ==
  CASE o.kind = "response" -> ResponseResult(url, o)
    [] o.kind = "timeout" -> UnexpectedResult(url, o)
    [] o.kind = "client_error" -> UnexpectedResult(url, o)
    [] o.kind = "exception" -> UnexpectedResult(url, o)

\* The try block of validate_url, given what the transport did.
ProbeResult(url, o) ==
  CASE o.kind = "response" -> ResponseResult(url, o)
    [] o.kind = "timeout" -> TimeoutResult(url)
    [] o.kind = "client_error" -> ClientErrorResult(url, o)
    [] o.kind = "exception" -> UnexpectedResult(url, o)

\* ------------------------------------------------------ validate_urls_batch
VARIABLES
  urls,            \* the list passed to validate_urls_batch
  max_concurrent,  \* its max_concurrent argument
  pc,              \* position of the coordinating coroutine
  session,         \* "none", "open", "closed": the shared ClientSession
  sem,             \* value of the asyncio.Semaphore
  waiters,         \* its FIFO queue of suspended tasks
  started,         \* number of tasks of the gather that have begun to run
  task,            \* per list index: "created", "waiting", "inflight", "done"
  taskres,         \* per list index: what the task returned to gather
  outcome,         \* per list index: <<>>, or <<o>> once the transport did o
  issued,          \* list indexes for which session.head was called
  results,         \* the dict built by the call
  clients,         \* number of ClientSession objects made so far
  client,          \* the session of this call (0: none made)
  open_clients,    \* the sessions that are open
  conn,            \* for each request, the session it was issued on
  batch,           \* "first" call or a "later" one
  transport,       \* a deterministic transport: url -> outcome
  done_order       \* the list indexes in the order the tasks finished

bvars == <<urls, max_concurrent, pc, session, sem, waiters, started, task,
           taskres, outcome, issued, results, clients, client, open_clients,
           conn, batch, transport, done_order>>

\* state of one call of a function decorated with retry_with_backoff
VARIABLES
  max_retries,     \* decorator arguments
  base_delay,
  max_delay,
  exceptions,      \* tuple of exception classes that are caught
  on_retry,        \* TRUE when a callback is configured
  rpc,             \* position of wrapper: "loop", "sleep", "returned", "raised"
  attempt,         \* the loop variable
  last_exception,  \* None or the exception caught last
  calls,           \* number of invocations of func so far
  sleeps,          \* the arguments of time.sleep, in order
  callbacks,       \* the arguments of on_retry, in order
  trace,           \* every call, callback, print and sleep, in order
  rresult          \* how wrapper ended: the value returned or exception raised

rvars == <<max_retries, base_delay, max_delay, exceptions, on_retry, rpc, attempt,
           last_exception, calls, sleeps, callbacks, trace, rresult>>

\* state of one call of filter_valid_news
VARIABLES
  news_items,                  \* the list argument; its dicts are changed in place
  input_items,                 \* the same list as it was when the call began
  validation_results,          \* the dict argument
  replace_broken_with_search,  \* the flag argument
  fpc,                         \* position: "loop", "returned"
  fi,                          \* number of items the for loop has finished
  valid,                       \* list of references (positions in news_items)
  fixed                        \* list of references (positions in news_items)

fvars == <<news_items, input_items, validation_results, replace_broken_with_search,
           fpc, fi, valid, fixed>>

\* state of fetch_all_news and of its calls of fetch_news_for_category
VARIABLES
  categories,      \* the category configs, in the order of SEARCH_CATEGORIES
  cat,             \* the category the loop is at
  delivered,       \* per finished category, the number of news items stored
  llm,             \* every call of the LLM so far, in order
  returned_items,  \* the number of items the last invocation returned
  gpc              \* position of fetch_all_news: "calling", "done", "raised"

gvars == <<categories, cat, delivered, llm, returned_items, gpc>>

N == Len(urls)

\* an element of the list gather returns (return_exceptions=True)
Returned(r) == [is_exception |-> FALSE, value |-> r, text |-> <<>>]

Pending == [is_exception |-> FALSE, value |-> None, text |-> <<>>]

EmptyDict == [u \in {} |-> None]

\* fault injection: the key is the url without its scheme
DictSetNormalized(d, k, v) ==
  LET key == IF Len(k) > 0 /\ k[1] \in {"http://", "https://"} THEN Tail(k) ELSE k
  IN  [u \in DOMAIN d \cup {key} |-> IF u = key THEN v ELSE d[u]]

DictSet(d, k, v) == [u \in DOMAIN d \cup {k} |-> IF u = k THEN v ELSE d[u]]

\* lines 137-144: the entry for a task that ended with an exception.
\* validate_url catches every Exception of a request itself, so for str urls
\* gather has no such element.
ExceptionResult(url, result) ==
  ValidationResult(url, FALSE, None, None,
                   Some(<<"Exception: ">> \o Truncate(result.text, ErrMsgLimit)))

RECURSIVE CollectFrom(_, _, _, _)
RECURSIVE CollectFromKeepFirst(_, _, _, _)

\* fault injection: a url that is already a key keeps its entry
CollectFromKeepFirst(us, rs, i, d) ==
  IF i > Len(us) THEN d
  ELSE CollectFromKeepFirst(us, rs, i + 1,
         IF us[i] \in DOMAIN d THEN d
         ELSE DictSet(d, us[i],
                      IF rs[i].is_exception THEN ExceptionResult(us[i], rs[i])
                      ELSE rs[i].value))

\* the loop over zip(urls, validation_results), from index i on
CollectFrom(us, rs, i, d) ==
  IF i > Len(us) THEN d
  ELSE CollectFrom(us, rs, i + 1,
         DictSet(d, us[i],
                 IF rs[i].is_exception THEN ExceptionResult(us[i], rs[i])
                 ELSE rs[i].value))

Collect(us, rs) == CollectFrom(us, rs, 1, EmptyDict)

InFlight == {i \in 1..N : task[i] = "inflight"}

\* what a call starts from, for any arguments
BatchFresh ==
  /\ urls \in UrlLists
  /\ max_concurrent \in 1..MaxConcurrent
  /\ pc = "call"
  /\ session = "none"
  /\ sem = 0
  /\ waiters = <<>>
  /\ started = 0
  /\ task = [i \in 1..N |-> "created"]
  /\ taskres = [i \in 1..N |-> Pending]
  /\ outcome = [i \in 1..N |-> <<>>]
  /\ issued = {}
  /\ results = EmptyDict
  /\ clients = 0
  /\ client = 0
  /\ open_clients = {}
  /\ conn = [i \in 1..N |-> 0]
  /\ batch = "first"
  /\ done_order = <<>>

BatchInit ==
  /\ BatchFresh
  /\ transport = EmptyDict

\* lines 114-133: the empty list returns {} at once; otherwise the semaphore
\* and the session are created and the coroutines handed to gather.
Call ==
  /\ pc = "call"
  /\ IF urls = <<>>
     THEN /\ pc' = "returned"
          /\ UNCHANGED <<session, sem, clients, client, open_clients>>
     ELSE /\ pc' = "gather"
          /\ session' = "open"
          /\ sem' = max_concurrent
          /\ clients' = clients + 1
          /\ client' = clients + 1
          /\ open_clients' = open_clients \cup {clients + 1}
  /\ results' = EmptyDict
  /\ UNCHANGED <<urls, max_concurrent, waiters, started, task, taskres, outcome, issued,
                 conn, batch, transport, done_order>>
  /\ UNCHANGED <<rvars, fvars, gvars>>

\* fault injection: results are kept in the order the tasks finish
ResultSlotByCompletion(i, tk) == Cardinality({j \in DOMAIN tk : tk[j] = "done"}) + 1

\* gather returns the results in the order of its arguments: the result of
\* the i-th coroutine is the i-th element, whenever it finishes
ResultSlot(i, tk) == i

\* fault injection: the slot is not given back
ReleaseLost(s) == s

\* Semaphore.release(), on leaving "async with semaphore"
Release(s) == s + 1

\* Task i holds a slot and runs validate_url up to its first suspension: a
\* blocked or malformed url returns at once (and the slot is released on
\* leaving "async with semaphore"); otherwise the HEAD request is issued on
\* the session of this call.
RunAdmitted(i) ==
  IF IsLocal(urls[i])
  THEN /\ task' = [task EXCEPT ![i] = "done"]
       /\ taskres' = [taskres EXCEPT ![ResultSlot(i, task)] = Returned(LocalResult(urls[i]))]
       /\ sem' = Release(sem - 1)
       /\ done_order' = Append(done_order, i)
       /\ UNCHANGED <<issued, conn>>
  ELSE /\ task' = [task EXCEPT ![i] = "inflight"]
       /\ issued' = issued \cup {i}
       /\ conn' = [conn EXCEPT ![i] = client]
       /\ sem' = sem - 1
       /\ UNCHANGED <<taskres, done_order>>

\* fault injection: the gate admits every task
LockedNever == FALSE

\* Semaphore.locked()
Locked == sem = 0 \/ waiters # <<>>

\* The event loop runs the tasks of the gather in list order; each one enters
\* "async with semaphore": it takes a slot, or queues behind the waiters.
StartTask ==
  /\ pc = "gather"
  /\ started < N
  /\ started' = started + 1
  /\ IF ~Locked
     THEN /\ RunAdmitted(started + 1)
          /\ UNCHANGED waiters
     ELSE /\ task' = [task EXCEPT ![started + 1] = "waiting"]
          /\ waiters' = Append(waiters, started + 1)
          /\ UNCHANGED <<sem, taskres, issued, conn, done_order>>
  /\ UNCHANGED <<urls, max_concurrent, pc, session, outcome, results,
                 clients, client, open_clients, batch, transport>>
  /\ UNCHANGED <<rvars, fvars, gvars>>

\* A released slot goes to the first waiter, which then runs.
WakeWaiter ==
  /\ pc = "gather"
  /\ waiters # <<>>
  /\ sem > 0
  /\ waiters' = Tail(waiters)
  /\ RunAdmitted(Head(waiters))
  /\ UNCHANGED <<urls, max_concurrent, pc, session, started, outcome, results,
                 clients, client, open_clients, batch, transport>>
  /\ UNCHANGED <<rvars, fvars, gvars>>

\* Request i ends with outcome o; validate_url returns the result for it and
\* the slot is released.
Answer(i, o) ==
  /\ pc = "gather"
  /\ outcome' = [outcome EXCEPT ![i] = <<o>>]
  /\ taskres' = [taskres EXCEPT ![ResultSlot(i, task)] = Returned(ProbeResult(urls[i], o))]
  /\ task' = [task EXCEPT ![i] = "done"]
  /\ sem' = Release(sem)
  /\ done_order' = Append(done_order, i)
  /\ UNCHANGED <<urls, max_concurrent, pc, session, waiters, started, issued, results,
                 clients, client, open_clients, conn, batch, transport>>
  /\ UNCHANGED <<rvars, fvars, gvars>>

\* The deterministic transport answers (or fails) request i.
RespondTo(i) == i \in InFlight /\ Answer(i, transport[urls[i]])

\* The transport answers (or fails) request i, in any way.
Respond == \E i \in InFlight : \E o \in Outcomes(urls[i]) : Answer(i, o)

\* gather returns once every task is done; lines 136-146 fill the dict.
GatherDone ==
  /\ pc = "gather"
  /\ started = N
  /\ \A i \in 1..N : task[i] = "done"
  /\ results' = Collect(urls, taskres)
  /\ pc' = "closing"
  /\ UNCHANGED <<urls, max_concurrent, session, sem, waiters, started, task,
                 taskres, outcome, issued, clients, client, open_clients, conn,
                 batch, transport, done_order>>
  /\ UNCHANGED <<rvars, fvars, gvars>>

\* fault injection: leaving the block does not close the session
ClosedNever(open, c) == open

\* ClientSession.__aexit__: the session is closed
Closed(open, c) == open \ {c}

\* leaving "async with aiohttp.ClientSession(...)", then return results
CloseSession ==
  /\ pc = "closing"
  /\ session' = "closed"
  /\ open_clients' = Closed(open_clients, client)
  /\ pc' = "returned"
  /\ UNCHANGED <<urls, max_concurrent, sem, waiters, started, task, taskres,
                 outcome, issued, results, clients, client, conn, batch, transport,
                 done_order>>
  /\ UNCHANGED <<rvars, fvars, gvars>>

\* A later call of validate_urls_batch, here with the same arguments: every
\* local of the call is new; the sessions made so far are what they are.
NextBatch ==
  /\ pc = "returned"
  /\ batch = "first"
  /\ batch' = "later"
  /\ pc' = "call"
  /\ session' = "none"
  /\ sem' = 0
  /\ waiters' = <<>>
  /\ started' = 0
  /\ task' = [i \in 1..N |-> "created"]
  /\ taskres' = [i \in 1..N |-> Pending]
  /\ outcome' = [i \in 1..N |-> <<>>]
  /\ issued' = {}
  /\ results' = EmptyDict
  /\ client' = 0
  /\ conn' = [i \in 1..N |-> 0]
  /\ done_order' = <<>>
  /\ UNCHANGED <<urls, max_concurrent, clients, open_clients, transport>>
  /\ UNCHANGED <<rvars, fvars, gvars>>

BatchNext ==
  \/ Call
  \/ StartTask
  \/ WakeWaiter
  \/ Respond
  \/ GatherDone
  \/ CloseSession
  \/ NextBatch

\* A deterministic transport: what it does with a request depends on the
\* url alone.
Requested(us) == {us[i] : i \in {j \in 1..Len(us) : ~IsLocal(us[j])}}

Transports(us) ==
  {t \in [Requested(us) -> UNION {Outcomes(u) : u \in Requested(us)}] :
     \A u \in Requested(us) : t[u] \in Outcomes(u)}

DetInit ==
  /\ BatchFresh
  /\ transport \in Transports(urls)

\* The deterministic transport answers request i.
RespondDet == \E i \in InFlight : RespondTo(i)

DetNext ==
  \/ Call
  \/ StartTask
  \/ WakeWaiter
  \/ RespondDet
  \/ GatherDone
  \/ CloseSession

\* ------------------------------------------------------- retry_with_backoff
\* the builtin exception classes used, each with its base class
Parent(c) ==
  CASE c = "Exception" -> "BaseException"
    [] c = "KeyboardInterrupt" -> "BaseException"
    [] c = "ValueError" -> "Exception"
    [] c = "OSError" -> "Exception"
    [] c = "ConnectionError" -> "OSError"
    [] c = "TimeoutError" -> "OSError"
    [] c = "JSONDecodeError" -> "ValueError"
    [] c = "LookupError" -> "Exception"
    [] c = "KeyError" -> "LookupError"

RECURSIVE IsSubclass(_, _)
IsSubclass(c, d) ==
  \/ c = d
  \/ c # "BaseException" /\ IsSubclass(Parent(c), d)

\* fault injection: a bare "except Exception"
CatchesException(excs, e) == IsSubclass(e.kind, "Exception")

\* "except exceptions as e" catches e
Catches(excs, e) == \E i \in 1..Len(excs) : IsSubclass(e.kind, excs[i])

RaisedKinds == {"ValueError", "ConnectionError", "KeyboardInterrupt"}

ExceptionTuples ==
  {<<"Exception">>, <<"ValueError">>, <<"ConnectionError", "TimeoutError">>}

\* the exception raised, or the value returned, by invocation number k
Raise(kind, k) == [how |-> "raise", kind |-> kind, at |-> k]

Return(k) == [how |-> "return", kind |-> "value", at |-> k]

NoResult == [how |-> "none", kind |-> "none", at |-> 0]

RECURSIVE Pow2(_)
Pow2(n) == IF n = 0 THEN 1 ELSE 2 * Pow2(n - 1)

\* fault injection: the wait is not capped
DelayUncapped(base, cap, att) == base * Pow2(att)

\* line 49
Delay(base, cap, att) == Min(base * Pow2(att), cap)

Event(ev, n, e) == [ev |-> ev, n |-> n, exc |-> e]

RetryInit ==
  /\ max_retries \in 1..MaxRetries
  /\ base_delay \in 0..MaxBaseDelay
  /\ max_delay \in 1..MaxDelayCap
  /\ exceptions \in ExceptionTuples
  /\ on_retry \in BOOLEAN
  /\ rpc = "loop"
  /\ attempt = 0
  /\ last_exception = None
  /\ calls = 0
  /\ sleeps = <<>>
  /\ callbacks = <<>>
  /\ trace = <<>>
  /\ rresult = NoResult

RetryFrame == UNCHANGED <<max_retries, base_delay, max_delay, exceptions, on_retry>>

\* fault injection: only the first failure is kept
CaptureFirst(last, e) == IF last = None THEN Some(e) ELSE last

\* line 45
Capture(last, e) == Some(e)

\* line 47
ShouldWait(att, n) == att < n - 1

\* line 41: range(max_retries) has a value after att
LoopContinues(att, n) == att + 1 < n

\* fault injection: nothing is raised after the loop; wrapper returns None
AdvanceFallsThrough(last) ==
  IF LoopContinues(attempt, max_retries)
  THEN /\ attempt' = attempt + 1
       /\ rpc' = "loop"
       /\ UNCHANGED rresult
  ELSE /\ rresult' = NoResult
       /\ rpc' = "returned"
       /\ UNCHANGED attempt

\* The for loop moves on after the except block: to the next attempt, or past
\* the loop to line 60, which raises last_exception.
Advance(last) ==
  IF LoopContinues(attempt, max_retries)
  THEN /\ attempt' = attempt + 1
       /\ rpc' = "loop"
       /\ UNCHANGED rresult
  ELSE /\ rresult' = last[1]
       /\ rpc' = "raised"
       /\ UNCHANGED attempt

\* fault injection: the value is kept but the loop goes on
AttemptReturnsNoReturn ==
  /\ rpc = "loop"
  /\ calls' = calls + 1
  /\ trace' = Append(trace, Event("call", calls + 1, None))
  /\ rresult' = Return(calls + 1)
  /\ IF LoopContinues(attempt, max_retries)
     THEN attempt' = attempt + 1 /\ rpc' = "loop"
     ELSE attempt' = attempt /\ rpc' = "returned"
  /\ RetryFrame
  /\ UNCHANGED <<last_exception, sleeps, callbacks>>
  /\ UNCHANGED <<bvars, fvars, gvars>>

\* line 43: func returns; wrapper returns its value at once
AttemptReturns ==
  /\ rpc = "loop"
  /\ calls' = calls + 1
  /\ trace' = Append(trace, Event("call", calls + 1, None))
  /\ rresult' = Return(calls + 1)
  /\ rpc' = "returned"
  /\ RetryFrame
  /\ UNCHANGED <<attempt, last_exception, sleeps, callbacks>>
  /\ UNCHANGED <<bvars, fvars, gvars>>

\* func raises a class the except clause does not name: it leaves wrapper
AttemptPropagates ==
  \E kind \in RaisedKinds :
    LET e == Raise(kind, calls + 1) IN
    /\ rpc = "loop"
    /\ ~Catches(exceptions, e)
    /\ calls' = calls + 1
    /\ trace' = Append(trace, Event("call", calls + 1, Some(e)))
    /\ rresult' = e
    /\ rpc' = "raised"
    /\ RetryFrame
    /\ UNCHANGED <<attempt, last_exception, sleeps, callbacks>>
    /\ UNCHANGED <<bvars, fvars, gvars>>

\* fault injection: the callback gets the loop variable itself
AttemptNumberZeroBased(att) == att

\* lines 53 and 55: the number passed to on_retry and printed
AttemptNumber(att) == att + 1

\* lines 44-57: a caught failure with attempt < max_retries - 1: the callback
\* (or the print) runs and time.sleep(delay) begins
AttemptRetries ==
  \E kind \in RaisedKinds :
    LET e == Raise(kind, calls + 1)
        delay == Delay(base_delay, max_delay, attempt)
    IN
    /\ rpc = "loop"
    /\ Catches(exceptions, e)
    /\ ShouldWait(attempt, max_retries)
    /\ calls' = calls + 1
    /\ last_exception' = Capture(last_exception, e)
    /\ callbacks' = IF on_retry THEN Append(callbacks, <<e, AttemptNumber(attempt)>>)
                   ELSE callbacks
    /\ sleeps' = Append(sleeps, delay)
    /\ trace' = trace \o <<Event("call", calls + 1, Some(e)),
                           Event(IF on_retry THEN "on_retry" ELSE "print",
                                 AttemptNumber(attempt), Some(e)),
                           Event("sleep", delay, None)>>
    /\ rpc' = "sleep"
    /\ RetryFrame
    /\ UNCHANGED <<attempt, rresult>>
    /\ UNCHANGED <<bvars, fvars, gvars>>

\* lines 44-47 and 60: a caught failure on the last attempt: nothing is
\* waited for, the loop ends and last_exception is raised
AttemptExhausted ==
  \E kind \in RaisedKinds :
    LET e == Raise(kind, calls + 1) IN
    /\ rpc = "loop"
    /\ Catches(exceptions, e)
    /\ ~ShouldWait(attempt, max_retries)
    /\ calls' = calls + 1
    /\ last_exception' = Capture(last_exception, e)
    /\ trace' = Append(trace, Event("call", calls + 1, Some(e)))
    /\ Advance(last_exception')
    /\ RetryFrame
    /\ UNCHANGED <<sleeps, callbacks>>
    /\ UNCHANGED <<bvars, fvars, gvars>>

\* time.sleep returns; the for loop takes its next value
SleepDone ==
  /\ rpc = "sleep"
  /\ Advance(last_exception)
  /\ RetryFrame
  /\ UNCHANGED <<last_exception, calls, sleeps, callbacks, trace>>
  /\ UNCHANGED <<bvars, fvars, gvars>>

RetryNext ==
  \/ AttemptReturns
  \/ AttemptPropagates
  \/ AttemptRetries
  \/ AttemptExhausted
  \/ SleepDone

\* -------------------------------------------------------- filter_valid_news
\* Titles and source names are sequences of characters.
LowerChar(c) ==
  CASE c = "A" -> "a" [] c = "B" -> "b" [] c = "C" -> "c" [] c = "D" -> "d"
    [] OTHER -> c

\* s.lower()
Lower(s) == [i \in 1..Len(s) |-> LowerChar(s[i])]

\* a in b, for strings
IsSubstring(a, b) == \E k \in 0..(Len(b) - Len(a)) : SubSeq(b, k + 1, k + Len(a)) = a

RECURSIVE Quote(_)
\* urllib.parse.quote: letters stay, other characters are percent-encoded
Quote(s) ==
  IF s = <<>> THEN <<>>
  ELSE (CASE Head(s) = " " -> <<"%", "2", "0">>
          [] Head(s) = "&" -> <<"%", "2", "6">>
          [] OTHER -> <<Head(s)>>) \o Quote(Tail(s))

\* fault injection: an empty string counts as true
TruthyPresent(opt) == opt # None

\* bool(x) of an optional string: None and "" are false
Truthy(opt) == opt # None /\ opt[1] # <<>>

\* fault injection: the source is looked for in the title as it is written
SearchQueryCaseSensitive(title, source) ==
  IF Truthy(source) /\ ~IsSubstring(source[1], title)
  THEN title \o <<" ">> \o source[1]
  ELSE title

SearchQuery(title, source) ==
  IF Truthy(source) /\ ~IsSubstring(Lower(source[1]), Lower(title))
  THEN title \o <<" ">> \o source[1]
  ELSE title

\* title is a string, source an optional string
create_google_search_url(title, source) ==
  <<"https://www.google.com/search?q=">> \o Quote(SearchQuery(title, source))

\* A news item: a dict; each key is absent (None) or holds a value.
NewsItem(title, url, source) ==
  [title |-> title, url |-> url, source |-> source, url_verified |-> None,
   url_status |-> None, url_error |-> None, original_url |-> None,
   url_is_search |-> None]

GoodUrlSlash == <<"https://", "good.example", "/">>

ItemPool ==
  { NewsItem(Some(<<"A">>), Some(GoodUrl), None),
    NewsItem(Some(<<"B">>), Some(<<>>), Some(<<>>)),
    NewsItem(Some(<<"C">>), Some(DeadUrl), Some(<<"D">>)),
    NewsItem(None, None, Some(<<"D">>)),
    NewsItem(Some(<<>>), Some(DeadUrl), None),
    NewsItem(Some(<<"A", " ", "b">>), Some(GoodUrlSlash), Some(<<"B">>)),
    NewsItem(Some(<<"A", "&", "b">>), None, Some(<<"B">>)),
    NewsItem(None, Some(GoodUrl), None),
    NewsItem(Some(<<>>), None, None) }

ItemLists == UNION {[1..n -> ItemPool] : n \in 0..MaxItems}

Response(status, u) ==
  [kind |-> "response", status |-> status, url |-> PyUrl(u), name |-> <<>>, msg |-> <<>>]

\* the verdicts a dict can hold for the first url: from a response that was
\* not redirected, from one that was, without final_url, and for status 404
GoodVerdicts ==
  { ResponseResult(GoodUrl, Response(200, GoodUrl)),
    ResponseResult(GoodUrl, Response(200, RedirectTarget)),
    ValidationResult(GoodUrl, TRUE, Some(200), None, None),
    ResponseResult(GoodUrl, Response(404, GoodUrl)) }

DeadVerdicts ==
  { TimeoutResult(DeadUrl), ResponseResult(DeadUrl, Response(404, DeadUrl)) }

ResultDicts ==
  {EmptyDict}
  \cup {DictSet(EmptyDict, GoodUrl, g) : g \in GoodVerdicts}
  \cup {DictSet(EmptyDict, DeadUrl, d) : d \in DeadVerdicts}
  \cup {DictSet(DictSet(EmptyDict, GoodUrl, g), DeadUrl, d) :
          g \in GoodVerdicts, d \in DeadVerdicts}

FilterInit ==
  /\ news_items \in ItemLists
  /\ input_items = news_items
  /\ validation_results \in ResultDicts
  /\ replace_broken_with_search \in BOOLEAN
  /\ fpc = "loop"
  /\ fi = 0
  /\ valid = <<>>
  /\ fixed = <<>>

\* fault injection: the item is put in front
PyPrepend(list, x) == <<x>> \o list

\* list.append(x)
PyAppend(list, x) == Append(list, x)

FilterFrame == UNCHANGED <<input_items, validation_results, replace_broken_with_search>>

\* the item of the current iteration, and item.get("url", "")
Item == news_items[fi + 1]

ItemUrl == IF Item.url = None THEN <<>> ELSE Item.url[1]

InLoop == fpc = "loop" /\ fi < Len(news_items)

\* line 197 and line 222
CanRepair == replace_broken_with_search /\ Truthy(Item.title)

\* fault injection: a trailing slash is dropped before the lookup
LookupNormalized ==
  LET key == IF Len(ItemUrl) > 1 /\ ItemUrl[Len(ItemUrl)] = "/"
             THEN SubSeq(ItemUrl, 1, Len(ItemUrl) - 1) ELSE ItemUrl
  IN  IF key \in DOMAIN validation_results THEN Some(validation_results[key]) ELSE None

\* validation_results.get(url): None or the result
Lookup == IF ItemUrl \in DOMAIN validation_results
          THEN Some(validation_results[ItemUrl]) ELSE None

\* fault injection: any result counts as valid
IsValidResultAny(result) == result # None

\* line 212
IsValidResult(result) == result # None /\ result[1].is_valid

\* fault injection: any recorded final_url counts as a redirect
RedirectedAlways(result, url) == result.final_url # None

\* line 214
Redirected(result, url) ==
  result.final_url # None /\ result.final_url[1] # <<>> /\ result.final_url[1] # url

\* fault injection: the note never carries the result's error
ErrorNoteGeneric(result) == Some(<<"Ej validerad">>)

\* result.error if result else "Ej validerad"
ErrorNote(result) == IF result # None THEN result[1].error ELSE Some(<<"Ej validerad">>)

\* fault injection: no reason is noted
MissingNoteAbsent == None

\* line 205
MissingNote == Some(<<"Ingen original-URL, soklank skapad">>)

\* lines 196-208: no url, and a search link is made from the title
FilterMissingRepair ==
  /\ InLoop
  /\ ItemUrl = <<>>
  /\ CanRepair
  /\ news_items' = [news_items EXCEPT ![fi + 1] =
       [Item EXCEPT !.url = Some(create_google_search_url(Item.title[1], Item.source)),
                    !.url_is_search = Some(TRUE),
                    !.url_verified = Some(FALSE),
                    !.url_error = MissingNote]]
  /\ valid' = PyAppend(valid, fi + 1)
  /\ fixed' = PyAppend(fixed, fi + 1)
  /\ fi' = fi + 1
  /\ FilterFrame
  /\ UNCHANGED fpc
  /\ UNCHANGED <<bvars, rvars, gvars>>

\* lines 196-197 and 208: no url and no repair: continue
FilterMissingSkip ==
  /\ InLoop
  /\ ItemUrl = <<>>
  /\ ~CanRepair
  /\ fi' = fi + 1
  /\ FilterFrame
  /\ UNCHANGED <<news_items, valid, fixed, fpc>>
  /\ UNCHANGED <<bvars, rvars, gvars>>

\* fault injection: the kept item is not marked as verified
FilterValidUnmarked ==
  /\ InLoop
  /\ ItemUrl # <<>>
  /\ IsValidResult(Lookup)
  /\ LET result == Lookup[1]
         moved == IF Redirected(result, ItemUrl)
                  THEN [Item EXCEPT !.url = Some(result.final_url[1]),
                                    !.original_url = Some(ItemUrl)]
                  ELSE Item
     IN  news_items' = [news_items EXCEPT ![fi + 1] =
           [moved EXCEPT !.url_status = result.status_code]]
  /\ valid' = PyAppend(valid, fi + 1)
  /\ fi' = fi + 1
  /\ FilterFrame
  /\ UNCHANGED <<fixed, fpc>>
  /\ UNCHANGED <<bvars, rvars, gvars>>

\* lines 210-219: the url has a valid result
FilterValid ==
  /\ InLoop
  /\ ItemUrl # <<>>
  /\ IsValidResult(Lookup)
  /\ LET result == Lookup[1]
         moved == IF Redirected(result, ItemUrl)
                  THEN [Item EXCEPT !.url = Some(result.final_url[1]),
                                    !.original_url = Some(ItemUrl)]
                  ELSE Item
     IN  news_items' = [news_items EXCEPT ![fi + 1] =
           [moved EXCEPT !.url_verified = Some(TRUE),
                         !.url_status = result.status_code]]
  /\ valid' = PyAppend(valid, fi + 1)
  /\ fi' = fi + 1
  /\ FilterFrame
  /\ UNCHANGED <<fixed, fpc>>
  /\ UNCHANGED <<bvars, rvars, gvars>>

\* fault injection: the repaired item is recorded as fixed but not kept
FilterBrokenRepairFixedOnly ==
  /\ InLoop
  /\ ItemUrl # <<>>
  /\ ~IsValidResult(Lookup)
  /\ CanRepair
  /\ news_items' = [news_items EXCEPT ![fi + 1] =
       [Item EXCEPT !.original_url = Some(ItemUrl),
                    !.url = Some(create_google_search_url(Item.title[1], Item.source)),
                    !.url_is_search = Some(TRUE),
                    !.url_verified = Some(FALSE),
                    !.url_error = ErrorNote(Lookup)]]
  /\ fixed' = PyAppend(fixed, fi + 1)
  /\ fi' = fi + 1
  /\ FilterFrame
  /\ UNCHANGED <<valid, fpc>>
  /\ UNCHANGED <<bvars, rvars, gvars>>

\* lines 220-233: a broken link is replaced by a search link
FilterBrokenRepair ==
  /\ InLoop
  /\ ItemUrl # <<>>
  /\ ~IsValidResult(Lookup)
  /\ CanRepair
  /\ news_items' = [news_items EXCEPT ![fi + 1] =
       [Item EXCEPT !.original_url = Some(ItemUrl),
                    !.url = Some(create_google_search_url(Item.title[1], Item.source)),
                    !.url_is_search = Some(TRUE),
                    !.url_verified = Some(FALSE),
                    !.url_error = ErrorNote(Lookup)]]
  /\ valid' = PyAppend(valid, fi + 1)
  /\ fixed' = PyAppend(fixed, fi + 1)
  /\ fi' = fi + 1
  /\ FilterFrame
  /\ UNCHANGED fpc
  /\ UNCHANGED <<bvars, rvars, gvars>>

\* lines 220-222 and 234-237: a broken link without repair: the item is
\* marked and left out of both lists
FilterBrokenDrop ==
  /\ InLoop
  /\ ItemUrl # <<>>
  /\ ~IsValidResult(Lookup)
  /\ ~CanRepair
  /\ news_items' = [news_items EXCEPT ![fi + 1] =
       [Item EXCEPT !.url_verified = Some(FALSE),
                    !.url_error = ErrorNote(Lookup)]]
  /\ fi' = fi + 1
  /\ FilterFrame
  /\ UNCHANGED <<valid, fixed, fpc>>
  /\ UNCHANGED <<bvars, rvars, gvars>>

\* line 239
FilterReturn ==
  /\ fpc = "loop"
  /\ fi = Len(news_items)
  /\ fpc' = "returned"
  /\ FilterFrame
  /\ UNCHANGED <<news_items, fi, valid, fixed>>
  /\ UNCHANGED <<bvars, rvars, gvars>>

FilterNext ==
  \/ FilterMissingRepair
  \/ FilterMissingSkip
  \/ FilterValid
  \/ FilterBrokenRepair
  \/ FilterBrokenDrop
  \/ FilterReturn

FilterIdle ==
  /\ news_items = <<>>
  /\ input_items = <<>>
  /\ validation_results = EmptyDict
  /\ replace_broken_with_search = TRUE
  /\ fpc = "idle"
  /\ fi = 0
  /\ valid = <<>>
  /\ fixed = <<>>

\* -------------------------------------------------- fetch_news_for_category
\* The decorator arguments of fetch_news_for_category (news_fetcher.py line
\* 23) and the default max_delay of retry_with_backoff.
FetchMaxRetries == 3
FetchBaseDelay == 2
FetchMaxDelay == 30

\* A category config: a dict that has the key "queries" or lacks it.
CategoryConfigs == [has_queries : BOOLEAN]

CategoryLists == UNION {[1..n -> CategoryConfigs] : n \in 1..MaxCategories}

\* What client.models.generate_content does: it raises (an API error, or the
\* process is interrupted), or it answers without candidates, with text that
\* is not JSON, or with the JSON of some news items.
LlmOutcomes ==
  { [kind |-> "raise", exc |-> "ConnectionError", items |-> 0],
    [kind |-> "raise", exc |-> "KeyboardInterrupt", items |-> 0],
    [kind |-> "no_candidates", exc |-> "none", items |-> 0],
    [kind |-> "bad_json", exc |-> "JSONDecodeError", items |-> 0],
    [kind |-> "news", exc |-> "none", items |-> 1],
    [kind |-> "news", exc |-> "none", items |-> 2] }

\* line 127 and line 131: the except clauses around the call
BodyCatches(kind) == IsSubclass(kind, "JSONDecodeError") \/ IsSubclass(kind, "Exception")

\* the exception class that leaves the try block for outcome o ("none" when
\* the block returns)
Thrown(o) == IF o.kind \in {"raise", "bad_json"} THEN o.exc ELSE "none"

\* lines 81-135: the body returns for LLM outcome o, and with how many items
BodyReturns(o) == IF Thrown(o) = "none" THEN TRUE ELSE BodyCatches(Thrown(o))

BodyItems(o) == IF Thrown(o) = "none" THEN o.items ELSE 0

FetchInit ==
  /\ categories \in CategoryLists
  /\ cat = 1
  /\ delivered = <<>>
  /\ llm = <<>>
  /\ returned_items = 0
  /\ gpc = "calling"
  /\ max_retries = FetchMaxRetries
  /\ base_delay = FetchBaseDelay
  /\ max_delay = FetchMaxDelay
  /\ exceptions = <<"Exception">>
  /\ on_retry = FALSE
  /\ rpc = "loop"
  /\ attempt = 0
  /\ last_exception = None
  /\ calls = 0
  /\ sleeps = <<>>
  /\ callbacks = <<>>
  /\ trace = <<>>
  /\ rresult = NoResult

\* the record of one LLM call: the category, the invocation of the wrapped
\* function that made it, and what the LLM did
LlmCall(c, n, o) == [cat |-> c, n |-> n, outcome |-> o]

\* line 42: category_config["queries"] raises KeyError, outside the try
\* block; the wrapper catches it (lines 44-57) and waits, or gives up (line 60)
FetchPromptFails ==
  LET e == Raise("KeyError", calls + 1)
      delay == Delay(base_delay, max_delay, attempt)
  IN
  /\ gpc = "calling"
  /\ rpc = "loop"
  /\ ~categories[cat].has_queries
  /\ Catches(exceptions, e)
  /\ calls' = calls + 1
  /\ last_exception' = Capture(last_exception, e)
  /\ IF ShouldWait(attempt, max_retries)
     THEN /\ sleeps' = Append(sleeps, delay)
          /\ trace' = trace \o <<Event("call", calls + 1, Some(e)),
                                 Event("print", AttemptNumber(attempt), Some(e)),
                                 Event("sleep", delay, None)>>
          /\ rpc' = "sleep"
          /\ UNCHANGED <<attempt, rresult>>
     ELSE /\ trace' = Append(trace, Event("call", calls + 1, Some(e)))
          /\ Advance(last_exception')
          /\ UNCHANGED sleeps
  /\ RetryFrame
  /\ UNCHANGED <<callbacks, categories, cat, delivered, llm, returned_items, gpc>>
  /\ UNCHANGED <<bvars, fvars>>

\* lines 81-135: the LLM is called and the body returns: the news items, or
\* [] when there is no candidate or when an except clause took the
\* exception; the wrapper returns that value (line 43)
FetchReturns ==
  \E o \in LlmOutcomes :
    /\ gpc = "calling"
    /\ rpc = "loop"
    /\ categories[cat].has_queries
    /\ BodyReturns(o)
    /\ llm' = Append(llm, LlmCall(cat, calls + 1, o))
    /\ returned_items' = BodyItems(o)
    /\ calls' = calls + 1
    /\ trace' = Append(trace, Event("call", calls + 1, None))
    /\ rresult' = Return(calls + 1)
    /\ rpc' = "returned"
    /\ RetryFrame
    /\ UNCHANGED <<attempt, last_exception, sleeps, callbacks, categories, cat, delivered, gpc>>
    /\ UNCHANGED <<bvars, fvars>>

\* the LLM call raises a class that no except clause of the body takes; the
\* wrapper's except clause does not take it either
FetchPropagates ==
  \E o \in LlmOutcomes :
    LET e == Raise(Thrown(o), calls + 1) IN
    /\ gpc = "calling"
    /\ rpc = "loop"
    /\ categories[cat].has_queries
    /\ ~BodyReturns(o)
    /\ ~Catches(exceptions, e)
    /\ llm' = Append(llm, LlmCall(cat, calls + 1, o))
    /\ calls' = calls + 1
    /\ trace' = Append(trace, Event("call", calls + 1, Some(e)))
    /\ rresult' = e
    /\ rpc' = "raised"
    /\ RetryFrame
    /\ UNCHANGED <<attempt, last_exception, sleeps, callbacks, categories, cat, delivered,
                   returned_items, gpc>>
    /\ UNCHANGED <<bvars, fvars>>

\* time.sleep returns; the for loop of the wrapper takes its next value
FetchSleepDone ==
  /\ gpc = "calling"
  /\ rpc = "sleep"
  /\ Advance(last_exception)
  /\ RetryFrame
  /\ UNCHANGED <<last_exception, calls, sleeps, callbacks, trace>>
  /\ UNCHANGED <<categories, cat, delivered, llm, returned_items, gpc>>
  /\ UNCHANGED <<bvars, fvars>>

\* fetch_all_news, lines 213-229: the value of the call is stored for the
\* category, and the loop calls the function for the next category
Deliver ==
  /\ gpc = "calling"
  /\ rpc = "returned"
  /\ delivered' = Append(delivered, returned_items)
  /\ IF cat < Len(categories)
     THEN /\ cat' = cat + 1
          /\ rpc' = "loop"
          /\ attempt' = 0
          /\ last_exception' = None
          /\ calls' = 0
          /\ sleeps' = <<>>
          /\ trace' = <<>>
          /\ rresult' = NoResult
          /\ UNCHANGED gpc
     ELSE /\ gpc' = "done"
          /\ UNCHANGED <<cat, rpc, attempt, last_exception, calls, sleeps, trace, rresult>>
  /\ RetryFrame
  /\ UNCHANGED <<callbacks, categories, llm, returned_items>>
  /\ UNCHANGED <<bvars, fvars>>

\* fetch_all_news has no except clause: an exception of the call ends it
Abort ==
  /\ gpc = "calling"
  /\ rpc = "raised"
  /\ gpc' = "raised"
  /\ UNCHANGED <<categories, cat, delivered, llm, returned_items>>
  /\ UNCHANGED <<bvars, rvars, fvars>>

FetchNext ==
  \/ FetchPromptFails
  \/ FetchReturns
  \/ FetchPropagates
  \/ FetchSleepDone
  \/ Deliver
  \/ Abort

FetchIdle ==
  /\ categories = <<>>
  /\ cat = 0
  /\ delivered = <<>>
  /\ llm = <<>>
  /\ returned_items = 0
  /\ gpc = "idle"

\* --------------------------------------------------------- specifications
\* Each specification runs one component; the other one stays idle.
BatchIdle ==
  /\ urls = <<>>
  /\ max_concurrent = 1
  /\ pc = "idle"
  /\ session = "none"
  /\ sem = 0
  /\ waiters = <<>>
  /\ started = 0
  /\ task = <<>>
  /\ taskres = <<>>
  /\ outcome = <<>>
  /\ issued = {}
  /\ results = EmptyDict
  /\ clients = 0
  /\ client = 0
  /\ open_clients = {}
  /\ conn = <<>>
  /\ batch = "first"
  /\ transport = EmptyDict
  /\ done_order = <<>>

RetryIdle ==
  /\ max_retries = 1
  /\ base_delay = 0
  /\ max_delay = 1
  /\ exceptions = <<"Exception">>
  /\ on_retry = FALSE
  /\ rpc = "idle"
  /\ attempt = 0
  /\ last_exception = None
  /\ calls = 0
  /\ sleeps = <<>>
  /\ callbacks = <<>>
  /\ trace = <<>>
  /\ rresult = NoResult

vars == <<bvars, rvars, fvars, gvars>>

Init == BatchInit /\ RetryIdle /\ FilterIdle /\ FetchIdle

Next == BatchNext

\* validate_urls_batch
Spec == Init /\ [][Next]_vars

RetryStart == RetryInit /\ BatchIdle /\ FilterIdle /\ FetchIdle

\* a function decorated with retry_with_backoff
SpecRetry == RetryStart /\ [][RetryNext]_vars

DetStart == DetInit /\ RetryIdle /\ FilterIdle /\ FetchIdle

\* validate_urls_batch against a deterministic transport
SpecDet == DetStart /\ [][DetNext]_vars

\* The event loop runs every task that can run, the transport ends every
\* request (aiohttp.ClientTimeout bounds it), and the caller's coroutine goes on.
BatchFairness ==
  /\ WF_vars(Call)
  /\ WF_vars(StartTask)
  /\ WF_vars(WakeWaiter)
  /\ \A i \in 1..MaxUrls : WF_vars(RespondTo(i))
  /\ WF_vars(GatherDone)
  /\ WF_vars(CloseSession)

\* the three ways a request ends: a response, a failure, the timeout
Endings(u) == {o \in Outcomes(u) : \/ o.kind = "response" /\ o.status = 200 /\ o.url = PyUrl(u)
                                   \/ o.kind \in {"client_error", "timeout"}}

LiveInit ==
  /\ BatchFresh
  /\ transport \in {t \in Transports(urls) : \A u \in DOMAIN t : t[u] \in Endings(u)}

LiveStart == LiveInit /\ RetryIdle /\ FilterIdle /\ FetchIdle

\* validate_urls_batch under fair scheduling
SpecLive == LiveStart /\ [][DetNext]_vars /\ BatchFairness

FilterStart == FilterInit /\ BatchIdle /\ RetryIdle /\ FetchIdle

\* filter_valid_news
SpecFilter == FilterStart /\ [][FilterNext]_vars

FetchStart == FetchInit /\ BatchIdle /\ FilterIdle

\* fetch_all_news calling the decorated fetch_news_for_category
SpecFetch == FetchStart /\ [][FetchNext]_vars

\* ------------------------------------------------------------------ claims
\* the verdict of list index i, once its task is done
Verdict(i) == taskres[i].value

Finished == pc \in {"closing", "returned"}

Probed(i) == task[i] = "done" /\ outcome[i] # <<>>

LastIndex(u) == CHOOSE i \in 1..N : urls[i] = u /\ \A j \in (i + 1)..N : urls[j] # u

\* C1: in every reachable state the number of probes admitted by the gate
\* that have not yet produced their verdict is at most max_concurrent.
C1_InFlightBounded ==
  /\ Cardinality(InFlight) <= max_concurrent
  /\ pc = "gather" => sem + Cardinality(InFlight) = max_concurrent

\* more urls than slots, every slot taken, a task queued at the gate
C1_Witness ==
  /\ N > max_concurrent
  /\ Cardinality(InFlight) = max_concurrent
  /\ waiters # <<>>

\* r is the verdict that url u gets from what the transport did with its own
\* request alone (o is <<>> when no request was made)
OwnVerdict(r, u, o) ==
  /\ r.url = u
  /\ IF o = <<>> THEN ~r.is_valid /\ r.status_code = None
     ELSE IF o[1].kind = "response"
     THEN /\ r.is_valid = (o[1].status <= 399)
          /\ r.status_code = Some(o[1].status)
     ELSE /\ ~r.is_valid
          /\ r.status_code = None
          /\ r.error # None
          /\ o[1].kind = "timeout" => r.error = Some(<<"Timeout">>)

\* C2: a failed probe (timeout, transport error, unexpected exception) gives
\* its url an invalid verdict without status code and with an error string
\* ("Timeout" for a timeout); the batch still runs to its return, and every
\* url's entry is the verdict of its own request.
C2_FailureIsolated ==
  /\ \A i \in 1..N :
       (Probed(i) /\ outcome[i][1].kind # "response") =>
         /\ ~taskres[i].is_exception
         /\ OwnVerdict(Verdict(i), urls[i], outcome[i])
  /\ Finished =>
       \A i \in 1..N :
         /\ urls[i] \in DOMAIN results
         /\ OwnVerdict(results[urls[i]], urls[i], outcome[LastIndex(urls[i])])
  /\ (pc # "idle" /\ ~ENABLED Next) => pc = "returned"

C2_Witness ==
  /\ pc = "returned"
  /\ \E i, j \in 1..N :
       /\ urls[i] # urls[j]
       /\ Probed(i) /\ outcome[i][1].kind = "timeout"
       /\ Probed(j) /\ outcome[j][1].kind = "response" /\ outcome[j][1].status = 200
       /\ results[urls[i]].error = Some(<<"Timeout">>)
       /\ results[urls[j]].is_valid

\* C3: the returned mapping has exactly the input url strings as its keys,
\* and the result stored under key u has url = u.
C3_OneEntryPerUrl ==
  Finished =>
    /\ DOMAIN results = {urls[i] : i \in 1..N}
    /\ \A u \in DOMAIN results : results[u].url = u

\* two spellings of the same link are two keys
C3_Witness ==
  /\ pc = "returned"
  /\ N = 2
  /\ DOMAIN results = {GroundingUrl, BareGroundingUrl}

HasBlockedHost(u) == \E k \in 1..Len(u) : u[k] = "vertexaisearch.cloud.google.com"

RedirectLinkVerdict(u) ==
  [url |-> u, is_valid |-> FALSE, status_code |-> None, final_url |-> None,
   error |-> Some(<<"Google redirect-lank (ej direkt URL)">>)]

InvalidFormatVerdict(u) ==
  [url |-> u, is_valid |-> FALSE, status_code |-> None, final_url |-> None,
   error |-> Some(<<"Ogiltig URL-format">>)]

\* C4: a url containing the grounding-redirect host is never requested over
\* the network and its verdict is invalid with the redirect-link error,
\* without status code or final url.
C4_BlockedNoRequest ==
  \A i \in 1..N :
    HasBlockedHost(urls[i]) =>
      /\ i \notin issued
      /\ task[i] # "inflight"
      /\ outcome[i] = <<>>
      /\ task[i] = "done" => taskres[i] = Returned(RedirectLinkVerdict(urls[i]))
      /\ Finished => results[urls[i]] = RedirectLinkVerdict(urls[i])

\* a batch that made requests, but none for its https grounding link
C4_Witness ==
  /\ pc = "returned"
  /\ issued # {}
  /\ \E i \in 1..N : urls[i] = GroundingUrl /\ results[urls[i]].error # None

NoHttpPrefix(u) == Len(u) = 0 \/ u[1] \notin {"http://", "https://"}

\* C5 as claimed: every url without http:// or https:// prefix gets the
\* invalid-URL-format error and no request.
C5_AlwaysInvalidFormat ==
  \A i \in 1..N :
    NoHttpPrefix(urls[i]) =>
      /\ i \notin issued
      /\ task[i] = "done" => taskres[i] = Returned(InvalidFormatVerdict(urls[i]))

\* C5 (amended): a url without http:// or https:// prefix is never requested
\* and its verdict is invalid without status code or final url; the error is
\* the invalid-URL-format error unless the url contains the blocklisted host,
\* in which case it is the redirect-link error.
C5_NoSchemeNoRequest ==
  \A i \in 1..N :
    NoHttpPrefix(urls[i]) =>
      /\ i \notin issued
      /\ task[i] # "inflight"
      /\ task[i] = "done" =>
           taskres[i] = Returned(IF HasBlockedHost(urls[i])
                                 THEN RedirectLinkVerdict(urls[i])
                                 ELSE InvalidFormatVerdict(urls[i]))
      /\ Finished =>
           results[urls[i]] = IF HasBlockedHost(urls[i])
                              THEN RedirectLinkVerdict(urls[i])
                              ELSE InvalidFormatVerdict(urls[i])

\* a list of the two kinds of url without scheme
C5_Witness ==
  /\ pc = "returned"
  /\ issued = {}
  /\ FtpUrl \in DOMAIN results
  /\ results[FtpUrl] = InvalidFormatVerdict(FtpUrl)
  /\ BareGroundingUrl \in DOMAIN results

\* the decimal text of a three-digit status code
ThreeDigits(s) == <<DigitChar(s \div 100), DigitChar((s \div 10) % 10), DigitChar(s % 10)>>

\* C10: a probe answered with status s has status_code = s; s <= 399 gives
\* is_valid = true and no error, s >= 400 gives is_valid = false and the
\* error "HTTP <s>".
C10_StatusMapping ==
  \A i \in 1..N :
    (Probed(i) /\ outcome[i][1].kind = "response") =>
      LET s == outcome[i][1].status
          r == Verdict(i)
      IN  /\ ~taskres[i].is_exception
          /\ r.status_code = Some(s)
          /\ s <= 399 => r.is_valid /\ r.error = None
          /\ s >= 400 => ~r.is_valid /\ r.error = Some(<<"HTTP ">> \o ThreeDigits(s))
          /\ (Finished /\ i = LastIndex(urls[i])) => results[urls[i]] = r

C10_Witness ==
  /\ pc = "returned"
  /\ \E i, j \in 1..N :
       /\ Probed(i) /\ outcome[i][1].kind = "response" /\ outcome[i][1].status = 399
       /\ Probed(j) /\ outcome[j][1].kind = "response" /\ outcome[j][1].status = 400
       /\ results[urls[i]].is_valid
       /\ results[urls[j]].error = Some(<<"HTTP ", "4", "0", "0">>)

\* ---- retry wrapper
\* the trace entries that are invocations of func
IsCall(ev) == ev.ev = "call"

CallsIn(tr) == SelectSeq(tr, IsCall)

\* the invocation failed with a class the except clause names
FailedRetryable(ev) ==
  /\ ev.ev = "call"
  /\ ev.exc # None
  /\ \E k \in 1..Len(exceptions) : IsSubclass(ev.exc[1].kind, exceptions[k])

\* the invocation failed with a class the except clause does not name
FailedOther(ev) ==
  /\ ev.ev = "call"
  /\ ev.exc # None
  /\ \A k \in 1..Len(exceptions) : ~IsSubclass(ev.exc[1].kind, exceptions[k])

Succeeded(ev) == ev.ev = "call" /\ ev.exc = None

Ended == rpc \in {"returned", "raised"}

AllFailedRetryable == \A k \in 1..Len(trace) : IsCall(trace[k]) => FailedRetryable(trace[k])

\* C6: when every attempt fails with a retryable class, func is invoked
\* exactly max_retries times and wrapper then raises the failure of the last
\* invocation.
C6_ExhaustionRaisesLast ==
  /\ calls <= max_retries
  /\ (Ended /\ AllFailedRetryable) =>
       /\ rpc = "raised"
       /\ calls = max_retries
       /\ Len(CallsIn(trace)) = max_retries
       /\ rresult.how = "raise"
       /\ rresult.at = max_retries
       /\ Some(rresult) = CallsIn(trace)[max_retries].exc

\* three attempts, failing with different retryable classes
C6_Witness ==
  /\ rpc = "raised"
  /\ AllFailedRetryable
  /\ max_retries = 3
  /\ calls = 3
  /\ CallsIn(trace)[1].exc[1].kind # rresult.kind

\* C7: a success on attempt j+1, after j retryable failures, is returned by
\* wrapper: func has then been invoked j+1 times, and nothing (no wait, no
\* callback, no invocation) follows the successful invocation.
C7_SuccessShortCircuits ==
  /\ \A k \in 1..Len(trace) :
       Succeeded(trace[k]) =>
         /\ k = Len(trace)
         /\ rpc = "returned"
         /\ rresult = Return(trace[k].n)
         /\ \A m \in 1..(k - 1) : IsCall(trace[m]) => FailedRetryable(trace[m])
  /\ rpc = "returned" =>
       /\ Len(trace) > 0 /\ Succeeded(trace[Len(trace)])
       /\ calls = Len(CallsIn(trace))
       /\ rresult = Return(calls)
       /\ calls <= max_retries
       /\ Len(sleeps) = calls - 1
       /\ ~ENABLED RetryNext

\* fails twice, then succeeds, with max_retries = 3
C7_Witness ==
  /\ rpc = "returned"
  /\ max_retries = 3
  /\ calls = 3
  /\ rresult = Return(3)

\* C8: a failure of a class outside `exceptions` leaves wrapper at once:
\* it is what wrapper raises, func is not invoked again, nothing is waited
\* for and on_retry is not called with it.
C8_NonMatchingPropagates ==
  \A k \in 1..Len(trace) :
    FailedOther(trace[k]) =>
      /\ k = Len(trace)
      /\ rpc = "raised"
      /\ rresult = trace[k].exc[1]
      /\ calls = trace[k].n
      /\ \A c \in 1..Len(callbacks) : callbacks[c][1] # trace[k].exc[1]
      /\ ~ENABLED RetryNext

\* the second attempt raises KeyboardInterrupt under exceptions=(Exception,)
\* with attempts left
C8_Witness ==
  /\ rpc = "raised"
  /\ exceptions = <<"Exception">>
  /\ rresult.kind = "KeyboardInterrupt"
  /\ calls = 2
  /\ max_retries > 2

\* C9: the i-th wait (from 0) is min(base_delay * 2^i, max_delay); there is
\* one wait after each retryable failure except that of the last allowed
\* attempt, so max_retries - 1 in an exhausted run; every wait is at most
\* max_delay and the waits never decrease.
C9_BackoffWaits ==
  /\ Len(sleeps) <= max_retries - 1
  /\ \A i \in 1..Len(sleeps) :
       /\ sleeps[i] = Min(base_delay * 2 ^ (i - 1), max_delay)
       /\ sleeps[i] <= max_delay
       /\ i > 1 => sleeps[i - 1] <= sleeps[i]
  /\ sleeps = [i \in 1..Len(SelectSeq(trace, LAMBDA ev : ev.ev = "sleep")) |->
                 SelectSeq(trace, LAMBDA ev : ev.ev = "sleep")[i].n]
  /\ \A k \in 1..Len(trace) :
       /\ trace[k].ev = "sleep" =>
            /\ k > 2
            /\ FailedRetryable(trace[k - 2])
            /\ trace[k - 2].n < max_retries
            /\ trace[k].n = Min(base_delay * 2 ^ (trace[k - 2].n - 1), max_delay)
       /\ (FailedRetryable(trace[k]) /\ trace[k].n < max_retries) =>
            Len(trace) >= k + 2 /\ trace[k + 2].ev = "sleep"
       /\ (FailedRetryable(trace[k]) /\ trace[k].n = max_retries) => k = Len(trace)
  /\ (rpc = "raised" /\ AllFailedRetryable) => Len(sleeps) = max_retries - 1

\* four attempts, the third wait cut by max_delay
C9_Witness ==
  /\ rpc = "raised"
  /\ AllFailedRetryable
  /\ max_retries = 4
  /\ sleeps = <<2, 4, 5>>

\* ---- link validator, continued
\* C11 as claimed: final_url is absent when the response's resolved url is the
\* requested url string, and is the resolved url when the two differ.
C11_FinalUrlOnlyOnRedirect ==
  \A i \in 1..N :
    (Probed(i) /\ outcome[i][1].kind = "response") =>
      LET resolved == outcome[i][1].url.v
      IN  Verdict(i).final_url = IF resolved = urls[i] THEN None ELSE Some(resolved)

WellFormed(r) ==
  /\ (r.error # None) <=> ~r.is_valid
  /\ r.is_valid => r.status_code # None /\ r.status_code[1] < 400

\* C12: in every ValidationResult, error is present exactly when is_valid is
\* false, and a valid result has a status code below 400.
C12_ErrorIffInvalid ==
  /\ \A i \in 1..N : task[i] = "done" => ~taskres[i].is_exception /\ WellFormed(Verdict(i))
  /\ \A u \in DOMAIN results : WellFormed(results[u])

\* a returned dict with a valid and an invalid entry
C12_Witness ==
  /\ pc = "returned"
  /\ \E u, w \in DOMAIN results :
       /\ results[u].is_valid /\ results[u].error = None
       /\ ~results[w].is_valid /\ results[w].status_code # None


\* ---- filter_valid_news
\* the loop has finished item k
Filtered(k) == fpc \in {"loop", "returned"} /\ k \in 1..fi

In(list, k) == \E j \in DOMAIN list : list[j] = k

\* the url the item had when the call began, "" when the key was absent
GivenUrl(k) == IF input_items[k].url = None THEN <<>> ELSE input_items[k].url[1]

HasVerdict(k) == GivenUrl(k) # <<>> /\ GivenUrl(k) \in DOMAIN validation_results

GivenVerdict(k) == validation_results[GivenUrl(k)]

ValidVerdict(k) == HasVerdict(k) /\ GivenVerdict(k).is_valid

\* C13: an item whose url is present with a valid verdict is kept and not
\* fixed, url_verified is true and url_status is the verdict's status code; its
\* url becomes a final_url that differs from it, with the previous url in
\* original_url; otherwise url is unchanged and no original_url is added.
C13_ValidItemKept ==
  \A k \in 1..Len(input_items) :
    (Filtered(k) /\ ValidVerdict(k)) =>
      LET v == GivenVerdict(k)
          item == news_items[k]
      IN  /\ In(valid, k) /\ ~In(fixed, k)
          /\ item.url_verified = Some(TRUE)
          /\ item.url_status = v.status_code
          /\ IF v.final_url # None /\ v.final_url[1] # GivenUrl(k)
             THEN item.url = v.final_url /\ item.original_url = Some(GivenUrl(k))
             ELSE item.url = input_items[k].url /\ item.original_url = None

\* a returned call that kept a redirected item under its final url
C13_Witness ==
  /\ fpc = "returned"
  /\ \E k \in 1..Len(input_items) :
       /\ ValidVerdict(k) /\ In(valid, k)
       /\ news_items[k].url = Some(RedirectTarget)
       /\ news_items[k].original_url = Some(GoodUrl)

InvalidVerdict(k) == HasVerdict(k) /\ ~GivenVerdict(k).is_valid

\* item.get("title") is a non-empty string
HasTitle(k) == input_items[k].title # None /\ input_items[k].title[1] # <<>>

SearchLink(k) == create_google_search_url(input_items[k].title[1], input_items[k].source)

\* the fields of an item whose broken link was replaced
RepairedBroken(k) ==
  LET item == news_items[k]
  IN  /\ item.url = Some(SearchLink(k))
      /\ item.original_url = Some(GivenUrl(k))
      /\ item.url_is_search = Some(TRUE)
      /\ item.url_verified = Some(FALSE)
      /\ item.url_error = GivenVerdict(k).error
      /\ In(valid, k) /\ In(fixed, k)

\* C14 as claimed: with repair enabled every item whose url is present with an
\* invalid verdict is kept and fixed, with the search link as url.
C14_BrokenAlwaysRepaired ==
  \A k \in 1..Len(input_items) :
    (Filtered(k) /\ replace_broken_with_search /\ InvalidVerdict(k)) =>
      /\ In(valid, k) /\ In(fixed, k)
      /\ news_items[k].url_is_search = Some(TRUE)
      /\ news_items[k].original_url = Some(GivenUrl(k))

\* C14: with repair enabled an item whose url is present with an invalid verdict
\* and whose title is non-empty is kept and fixed: url is the search link,
\* original_url the previous url, url_is_search true, url_verified false,
\* url_error the verdict's error. Without a title it is in neither list, keeps
\* its url and gets url_verified false and the verdict's error.
C14_BrokenRepairedWithTitle ==
  \A k \in 1..Len(input_items) :
    (Filtered(k) /\ replace_broken_with_search /\ InvalidVerdict(k)) =>
      IF HasTitle(k)
      THEN RepairedBroken(k)
      ELSE /\ ~In(valid, k) /\ ~In(fixed, k)
           /\ news_items[k].url = input_items[k].url
           /\ news_items[k].url_verified = Some(FALSE)
           /\ news_items[k].url_error = GivenVerdict(k).error

\* a returned call with repair enabled that fixed a titled broken item and
\* dropped an untitled one
C14_Witness ==
  /\ fpc = "returned"
  /\ replace_broken_with_search
  /\ \E k, m \in 1..Len(input_items) :
       /\ InvalidVerdict(k) /\ HasTitle(k) /\ In(fixed, k)
       /\ news_items[k].url_is_search = Some(TRUE)
       /\ InvalidVerdict(m) /\ ~HasTitle(m) /\ ~In(valid, m)

\* the url key is absent or holds ""
MissingUrl(k) == GivenUrl(k) = <<>>

\* C15: with repair enabled an item with a missing or empty url and a non-empty
\* title gets the search link as url, url_is_search true, url_verified false
\* and a url_error note, and is in both the kept and the fixed list.
C15_MissingRepaired ==
  \A k \in 1..Len(input_items) :
    (Filtered(k) /\ replace_broken_with_search /\ MissingUrl(k) /\ HasTitle(k)) =>
      LET item == news_items[k]
      IN  /\ item.url = Some(SearchLink(k))
          /\ item.url_is_search = Some(TRUE)
          /\ item.url_verified = Some(FALSE)
          /\ item.url_error # None /\ item.url_error[1] # <<>>
          /\ In(valid, k) /\ In(fixed, k)

\* a returned call that repaired an item without url key and one with url ""
C15_Witness ==
  /\ fpc = "returned"
  /\ replace_broken_with_search
  /\ \E k, m \in 1..Len(input_items) :
       /\ input_items[k].url = None /\ HasTitle(k) /\ In(fixed, k)
       /\ input_items[m].url = Some(<<>>) /\ HasTitle(m) /\ In(fixed, m)
       /\ news_items[m].url_is_search = Some(TRUE)

\* C16: an item with a missing or empty url for which repair is disabled or
\* no title exists is in neither list, and none of its fields is changed.
C16_MissingDropped ==
  \A k \in 1..Len(input_items) :
    (Filtered(k) /\ MissingUrl(k) /\ (~replace_broken_with_search \/ ~HasTitle(k))) =>
      /\ ~In(valid, k) /\ ~In(fixed, k)
      /\ news_items[k] = input_items[k]

\* a returned call with repair enabled that skipped an item with an empty
\* title and one without title, next to an item it repaired
C16_Witness ==
  /\ fpc = "returned"
  /\ replace_broken_with_search
  /\ \E k, m, j \in 1..Len(input_items) :
       /\ MissingUrl(k) /\ input_items[k].title = Some(<<>>) /\ ~In(valid, k)
       /\ MissingUrl(m) /\ input_items[m].title = None /\ ~In(valid, m)
       /\ MissingUrl(j) /\ In(fixed, j)

\* the positions in the list are in input order, each at most once
Increasing(list) == \A a, b \in DOMAIN list : a < b => list[a] < list[b]

C18_OutputsAreSubsequences ==
  /\ \A j \in DOMAIN valid : valid[j] \in 1..Len(input_items)
  /\ \A j \in DOMAIN fixed : fixed[j] \in 1..Len(input_items)
  /\ Increasing(valid)
  /\ Increasing(fixed)

\* a returned call that kept all three items and fixed the first and the last
C18_Witness ==
  /\ fpc = "returned"
  /\ valid = <<1, 2, 3>>
  /\ fixed = <<1, 3>>

\* ---- validate_urls_batch, continued
\* the mapping as a function of the url list and the transport alone: no
\* scheduling variable and no max_concurrent occurs in it
ExpectedMapping(us, t) ==
  [u \in {us[i] : i \in 1..Len(us)} |->
     IF u \in DOMAIN t THEN ProbeResult(u, t[u]) ELSE LocalResult(u)]

\* C19: against a deterministic transport the returned mapping is a function
\* of the url list and the transport's per-url responses only: every run over
\* the same urls returns the same mapping, whatever the order in which the
\* probes are admitted and complete and whatever max_concurrent is.
C19_MappingDeterministic ==
  pc = "returned" => results = ExpectedMapping(urls, transport)

\* a returned call whose second probe completed before its first, the
\* transport answering the two urls differently
C19_Witness ==
  /\ pc = "returned"
  /\ N = 2
  /\ done_order = <<2, 1>>
  /\ urls[1] \in DOMAIN transport /\ urls[2] \in DOMAIN transport
  /\ transport[urls[1]] # transport[urls[2]]
  /\ results[urls[1]].is_valid /\ ~results[urls[2]].is_valid

\* the number of sessions the calls before this one made (a later call is
\* made with the same list)
MadeBefore == IF batch = "later" /\ N > 0 THEN 1 ELSE 0

\* C20: a call on a non-empty list makes exactly one session; every request
\* of the call is issued on it and is in flight only while it is open; it is
\* closed when the call has returned, whichever probes failed; a later call
\* makes a session of its own.
C20_OneClientPerBatch ==
  /\ pc = "call" => clients = MadeBefore /\ client = 0
  /\ (pc \in {"gather", "closing", "returned"} /\ N > 0) =>
       clients = MadeBefore + 1 /\ client = clients
  /\ (pc = "returned" /\ N = 0) => clients = 0 /\ client = 0
  /\ pc \in {"gather", "closing"} => open_clients = {client}
  /\ \A i \in issued : conn[i] = client /\ client # 0
  /\ InFlight # {} => client \in open_clients
  /\ pc \in {"call", "returned"} => open_clients = {} /\ InFlight = {}

\* a later call has returned: its session is the second one made, it is
\* closed, and one of its probes failed while another succeeded
C20_Witness ==
  /\ pc = "returned"
  /\ batch = "later"
  /\ clients = 2 /\ client = 2 /\ open_clients = {}
  /\ \E i, j \in issued :
       /\ outcome[i][1].kind = "timeout"
       /\ outcome[j][1].kind = "response" /\ conn[j] = 2

\* every input url has a verdict and no probe is in flight
AllSettled ==
  /\ \A i \in 1..N : urls[i] \in DOMAIN results
  /\ InFlight = {}

\* C21: under fair scheduling, with every request ending, a probe waiting at
\* the gate is eventually admitted, an admitted probe eventually gives its
\* slot back, and the call eventually returns with a verdict for every input
\* url and no probe in flight.
C21_EventuallyReturns ==
  /\ \A i \in 1..MaxUrls :
       (i \in DOMAIN task /\ task[i] = "waiting")
         ~> (i \in DOMAIN task /\ task[i] \in {"inflight", "done"})
  /\ \A i \in 1..MaxUrls :
       (i \in DOMAIN task /\ task[i] = "inflight")
         ~> (i \in DOMAIN task /\ task[i] = "done" /\ sem > 0)
  /\ (pc = "call") ~> (pc = "returned" /\ AllSettled)

\* a returned call whose second request had to wait for the only slot
C21_Witness ==
  /\ pc = "returned"
  /\ AllSettled
  /\ max_concurrent = 1
  /\ issued = {1, 2}
  /\ done_order = <<1, 2>>

\* C22: the rules apply in the order blocklist, malformed, probe, and the
\* first match wins: a url with the blocklisted host and without http(s)
\* prefix gets the redirect-link error, and a request is made only for a url
\* that matches neither of the two rules.
C22_FirstMatchWins ==
  /\ \A i \in 1..N :
       (HasBlockedHost(urls[i]) /\ NoHttpPrefix(urls[i])) =>
         /\ task[i] = "done" => taskres[i] = Returned(RedirectLinkVerdict(urls[i]))
         /\ Finished => results[urls[i]].error = RedirectLinkVerdict(urls[i]).error
  /\ \A i \in issued : ~HasBlockedHost(urls[i]) /\ ~NoHttpPrefix(urls[i])
  /\ \A i \in 1..N :
       (task[i] = "done" /\ ~HasBlockedHost(urls[i]) /\ ~NoHttpPrefix(urls[i])) => i \in issued

\* a returned call with a scheme-less grounding link, told apart as a
\* redirect link, next to a url that was requested
C22_Witness ==
  /\ pc = "returned"
  /\ \E i, j \in 1..N :
       /\ urls[i] = BareGroundingUrl
       /\ results[urls[i]] = RedirectLinkVerdict(urls[i])
       /\ j \in issued

\* ---- retry wrapper, continued
IsCallback(ev) == ev.ev = "on_retry"

\* the failures that occur before the last attempt and are retried
RetriedFailure(ev) == FailedRetryable(ev) /\ ev.n < max_retries

\* C23 as claimed: the number passed to the callback is the index that is
\* used as the exponent of the wait that follows.
C23_CallbackGetsExponent ==
  \A j \in 1..Len(callbacks) :
    j <= Len(sleeps) => sleeps[j] = Min(base_delay * 2 ^ callbacks[j][2], max_delay)

\* C23: a configured callback is invoked exactly once for each retryable
\* failure before the last attempt, right after the failure, before the wait
\* and before the next invocation, with that failure and the number of the
\* failed attempt counted from 1 (the exponent of the wait is one less); it is
\* not invoked for the last failed attempt nor after a success.
C23_CallbackPerRetry ==
  /\ ~on_retry => callbacks = <<>> /\ \A k \in 1..Len(trace) : ~IsCallback(trace[k])
  /\ on_retry =>
       /\ Len(callbacks) = Len(SelectSeq(trace, RetriedFailure))
       /\ Len(callbacks) = Len(SelectSeq(trace, IsCallback))
       /\ \A j \in 1..Len(callbacks) :
            LET cb == SelectSeq(trace, IsCallback)[j]
            IN  callbacks[j] = <<cb.exc[1], cb.n>>
       /\ \A k \in 1..Len(trace) :
            /\ RetriedFailure(trace[k]) =>
                 /\ Len(trace) >= k + 2
                 /\ IsCallback(trace[k + 1])
                 /\ trace[k + 1].exc = trace[k].exc
                 /\ trace[k + 1].n = trace[k].n
                 /\ trace[k + 2].ev = "sleep"
                 /\ trace[k + 2].n = Min(base_delay * 2 ^ (trace[k + 1].n - 1), max_delay)
                 /\ Len(trace) >= k + 3 => IsCall(trace[k + 3])
            /\ IsCallback(trace[k]) => k > 1 /\ RetriedFailure(trace[k - 1])

\* three retried failures, each reported to the callback, then a success
C23_Witness ==
  /\ rpc = "returned"
  /\ on_retry
  /\ Len(callbacks) = 3
  /\ callbacks[1][2] = 1 /\ callbacks[3][2] = 3
  /\ sleeps = <<1, 2, 4>>

\* ---- fetch_news_for_category
\* the call of the wrapped function that made LLM call c has ended
CallEnded(c) == c.cat < cat \/ gpc # "calling" \/ rpc \in {"returned", "raised"}

\* C24 as claimed: when the LLM call made inside fetch_news_for_category
\* fails with an exception, the function is invoked again (up to
\* max_retries = 3 invocations) before the category's result is delivered.
C24_LlmFailureRetried ==
  \A k \in 1..Len(llm) :
    LET c == llm[k]
    IN  (/\ c.outcome.kind = "raise"
         /\ IsSubclass(c.outcome.exc, "Exception")
         /\ c.n < FetchMaxRetries
         /\ CallEnded(c)) =>
          \E j \in 1..Len(llm) : llm[j].cat = c.cat /\ llm[j].n = c.n + 1

\* ---- create_google_search_url
SearchPrefix == <<"https://www.google.com/search?q=">>

\* a non-empty source is given and, lower-cased, is not inside the lower-cased title
SourceAdds(title, source) ==
  /\ source # None
  /\ source[1] # <<>>
  /\ \A k \in 0..(Len(title) - Len(source[1])) :
       Lower(SubSeq(title, k + 1, k + Len(source[1]))) # Lower(source[1])

\* C25: the query of the search link is the title followed by the source
\* exactly when a non-empty source is given whose lower-cased text is not a
\* substring of the lower-cased title; otherwise it is the title alone.
C25_QueryHasSourceIffNew ==
  \A k \in 1..Len(input_items) :
    (Filtered(k) /\ In(fixed, k)) =>
      LET title == input_items[k].title[1]
          source == input_items[k].source
          query == IF SourceAdds(title, source) THEN title \o <<" ">> \o source[1] ELSE title
      IN  news_items[k].url = Some(SearchPrefix \o Quote(query))

\* a returned call with three search links: one with the source added, one
\* whose source is in the title but for the case, one with the source ""
C25_Witness ==
  /\ fpc = "returned"
  /\ \E k, m, j \in 1..Len(input_items) :
       /\ news_items[k].url = Some(SearchPrefix \o <<"C", "%", "2", "0", "D">>)
       /\ input_items[m].source = Some(<<"B">>)
       /\ news_items[m].url = Some(SearchPrefix \o <<"A", "%", "2", "0", "b">>)
       /\ input_items[j].source = Some(<<>>)
       /\ news_items[j].url = Some(SearchPrefix \o <<"B">>)

\* ---- filter_valid_news, continued
\* the item has a url that is no key of the results mapping
Unvalidated(k) == GivenUrl(k) # <<>> /\ GivenUrl(k) \notin DOMAIN validation_results

\* C26: an item whose url has no exactly equal key in the results mapping is
\* handled as a broken link with the note "Ej validerad": url_verified is
\* false, and it is repaired (with a title and repair enabled) or left out of
\* both lists, as an item with an invalid verdict is.
C26_UnvalidatedIsBroken ==
  \A k \in 1..Len(input_items) :
    (Filtered(k) /\ Unvalidated(k)) =>
      LET item == news_items[k]
      IN  /\ item.url_verified = Some(FALSE)
          /\ item.url_error = Some(<<"Ej validerad">>)
          /\ item.url_status = None
          /\ IF replace_broken_with_search /\ HasTitle(k)
             THEN /\ In(valid, k) /\ In(fixed, k)
                  /\ item.url = Some(SearchLink(k))
                  /\ item.original_url = Some(GivenUrl(k))
                  /\ item.url_is_search = Some(TRUE)
             ELSE /\ ~In(valid, k) /\ ~In(fixed, k)
                  /\ item.url = input_items[k].url

\* the url with a trailing slash is not found although the url without it
\* has a valid verdict, which an item with that very url gets
C26_Witness ==
  /\ fpc = "returned"
  /\ GoodUrl \in DOMAIN validation_results
  /\ validation_results[GoodUrl].is_valid
  /\ \E k, m \in 1..Len(input_items) :
       /\ GivenUrl(k) = GoodUrlSlash
       /\ news_items[k].url_error = Some(<<"Ej validerad">>)
       /\ In(fixed, k)
       /\ GivenUrl(m) = GoodUrl
       /\ news_items[m].url_verified = Some(TRUE)

\* the place of item k in the list (0 when it is not in it)
PlaceIn(list, k) == IF In(list, k) THEN CHOOSE j \in DOMAIN list : list[j] = k ELSE 0

\* C27: the second returned list is a subsequence of the first: every fixed
\* item is also kept, in the same relative order, and there are never more
\* fixed items than kept items.
C27_FixedWithinKept ==
  /\ \A j \in DOMAIN fixed : In(valid, fixed[j])
  /\ \A a, b \in DOMAIN fixed :
       a < b => PlaceIn(valid, fixed[a]) < PlaceIn(valid, fixed[b])
  /\ Len(fixed) <= Len(valid)

\* a returned call that kept three items, the last two of them repaired
C27_Witness ==
  /\ fpc = "returned"
  /\ valid = <<1, 2, 3>>
  /\ fixed = <<2, 3>>
  /\ news_items[1].url_verified = Some(TRUE)

\* C28: after the return every kept item has a non-empty url and a
\* url_verified field; url_verified is true exactly for the kept items whose
\* original url had a valid verdict, and a kept item with url_is_search true
\* has url_verified false and a url_error note.
C28_KeptItemsAnnotated ==
  fpc = "returned" =>
    \A k \in 1..Len(input_items) :
      In(valid, k) =>
        LET item == news_items[k]
        IN  /\ item.url # None /\ item.url[1] # <<>>
            /\ item.url_verified # None
            /\ item.url_verified = Some(TRUE) <=> ValidVerdict(k)
            /\ item.url_is_search = Some(TRUE) =>
                 /\ item.url_verified = Some(FALSE)
                 /\ item.url_error # None /\ item.url_error[1] # <<>>

\* a returned call that kept a verified item, a repaired broken link and a
\* repaired item that had no url
C28_Witness ==
  /\ fpc = "returned"
  /\ \E k, m, j \in 1..Len(input_items) :
       /\ In(valid, k) /\ news_items[k].url_verified = Some(TRUE)
       /\ In(valid, m) /\ InvalidVerdict(m) /\ news_items[m].url_is_search = Some(TRUE)
       /\ In(valid, j) /\ MissingUrl(j) /\ news_items[j].url_verified = Some(FALSE)

\* session.head is called for list index i in this step
HeadCalled(i) == task[i] # "inflight" /\ task'[i] = "inflight"

\* C29: one request is made per element of the list that passes the
\* blocklist and scheme checks and none for the others; a request is never
\* made a second time for the same element, so a url that occurs m times is
\* requested m times; the mapping holds for every url the verdict of its last
\* occurrence in the list, in whatever order the requests completed.
C29_OneProbePerElement ==
  /\ [](Finished =>
          /\ issued = {i \in 1..N : ~IsLocal(urls[i])}
          /\ \A i \in issued : Probed(i)
          /\ \A u \in DOMAIN results :
               /\ Cardinality({i \in issued : urls[i] = u})
                    = IF IsLocal(u) THEN 0 ELSE Cardinality({i \in 1..N : urls[i] = u})
               /\ results[u] = Verdict(LastIndex(u)))
  /\ [][\A i \in 1..N : HeadCalled(i) => (i \notin issued /\ outcome[i] = <<>>)]_vars

\* the same url twice; its second request completed first, and with
\* another verdict than the first; the mapping has the second verdict
C29_Witness ==
  /\ pc = "returned"
  /\ N = 2
  /\ urls[1] = urls[2]
  /\ issued = {1, 2}
  /\ done_order = <<2, 1>>
  /\ Verdict(1) # Verdict(2)
  /\ results[urls[1]] = Verdict(2)

\* C30: func is invoked at most max_retries times, and at least once before
\* wrapper is left; what leaves wrapper is the value that an invocation
\* returned or the exception that an invocation raised: wrapper raises
\* nothing of its own and returns nothing without a successful invocation.
\* (max_retries >= 1; the delays are durations, so not negative; on_retry
\* returns.)
C30_ExitsComeFromInvocations ==
  /\ calls <= max_retries
  /\ calls = Len(CallsIn(trace))
  /\ Ended =>
       /\ calls >= 1
       /\ IF rresult.at \in 1..calls
          THEN LET made == CallsIn(trace)[rresult.at]
               IN  /\ made.n = rresult.at
                   /\ rpc = "returned" => (rresult.how = "return" /\ made.exc = None)
                   /\ rpc = "raised" => (rresult.how = "raise" /\ made.exc = Some(rresult))
          ELSE FALSE

\* with a callback, two retried failures and a third, not retryable one
\* that leaves wrapper on the third of four allowed attempts
C30_Witness ==
  /\ rpc = "raised"
  /\ on_retry
  /\ max_retries = 4
  /\ calls = 3
  /\ Len(callbacks) = 2
  /\ rresult.at = 3
  /\ ~Catches(exceptions, rresult)
====
